---- MODULE Spec2Model ----
(***************************************************************************)
(* The Emberstone Legacy (src/game.py): the player and enemy stat model,   *)
(* the inventory screen, the turn-based combat loop start_combat and the   *)
(* story stages that call it, as one state machine.  Each action is one    *)
(* stretch of code between two reads of input().                           *)
(***************************************************************************)
EXTENDS Integers, Sequences, FiniteSets, TLC

(***************************************************************************)
(* Bounds of the model.                                                    *)
(***************************************************************************)
\* A whole game is explored up to MaxInputs commands read at the combat and
\* inventory prompts.
MaxInputs == 3
\* A method is exercised on a player of hp 0..MaxTestHp or full hp, of mp
\* 0..MaxTestMp or full mp, against an enemy of strength 0..MaxTestStrength.
MaxTestHp == 30
MaxTestMp == 16
MaxTestStrength == 20
\* take_damage is exercised with a damage of 0..MaxTestDamage.
MaxTestDamage == 40
\* An encounter is run to its end on a player of CombatHp hp against an
\* enemy of CombatEnemyHp hp.
CombatHp == 12
CombatEnemyHp == 20

\* The Treant menu is explored for players with 1..WoodsHp hp left.
WoodsHp == 20

(***************************************************************************)
(* Randomness.                                                             *)
(***************************************************************************)
\* random.randint(lo, hi): an integer of lo..hi, both ends included.
randint(lo, hi) == lo..hi

\* random.random(): a float of [0, 1), taken in hundredths (d stands for d/100).
Draws == 0..99

\* draw < agility * 0.01 (game.py:96-97), in hundredths.
Dodges(agility, d) == d < agility

\* draw < agility * 0.015 (game.py:269, 272), in two-hundredths.
Crits(agility, d) == 2 * d < 3 * agility

\* draw > 0.33 (game.py:364), in hundredths.
FleeSucceeds(d) == d > 33

(***************************************************************************)
(* Items (class Item, game.py:45-56).  The description is flavour text.    *)
(* effect is kept as the fields kind / attr / amount; kind "none" is       *)
(* effect=None.                                                            *)
(***************************************************************************)
Item(name, item_type, kind, attr, amount) ==
    [name |-> name, item_type |-> item_type, kind |-> kind, attr |-> attr,
     amount |-> amount]

SoldiersSword == Item("Soldier's Sword", "weapon", "boost", "strength", 2)
ApprenticeStaff == Item("Apprentice Staff", "weapon", "boost", "magic", 2)
TwinDaggers == Item("Twin Daggers", "weapon", "boost", "agility", 2)
HealthPotion == Item("Health Potion", "potion", "heal", "", 25)
ManaPotion == Item("Mana Potion", "potion", "mana", "", 25)
GreaterHealthPotion == Item("Greater Health Potion", "potion", "heal", "", 50)
SeedOfLife == Item("Seed of Life", "potion", "heal", "", 999)
SunstoneShard == Item("Sunstone Shard", "artifact", "none", "", 0)
TheSunstone == Item("The Sunstone", "artifact", "none", "", 0)

\* str.lower() on the item names of the game.
Lower(name) ==
    CASE name = "Soldier's Sword" -> "soldier's sword"
      [] name = "Apprentice Staff" -> "apprentice staff"
      [] name = "Twin Daggers" -> "twin daggers"
      [] name = "Health Potion" -> "health potion"
      [] name = "Mana Potion" -> "mana potion"
      [] name = "Greater Health Potion" -> "greater health potion"
      [] name = "Seed of Life" -> "seed of life"
      [] name = "Sunstone Shard" -> "sunstone shard"
      [] name = "The Sunstone" -> "the sunstone"
      [] OTHER -> name

\* The item names typed at the inventory prompt (already lowered and stripped
\* by game.py:194): the name of every item of inv, and one that no item has.
TypedNames(inv) == {Lower(inv[i].name) : i \in 1..Len(inv)} \union {"rusty key"}

\* The index of the first item whose lowered name is item_name, 0 if none
\* (the for loop of game.py:204-207).
FindItem(inv, item_name) ==
    IF \E i \in 1..Len(inv) : Lower(inv[i].name) = item_name
    THEN CHOOSE i \in 1..Len(inv) :
            /\ Lower(inv[i].name) = item_name
            /\ \A j \in 1..(i - 1) : Lower(inv[j].name) # item_name
    ELSE 0

\* Removal by name: every item called like the one at index i goes.
RemoveAllNamed(inv, i) == SelectSeq(inv, LAMBDA x : x.name # inv[i].name)

\* list.remove(item) for the item found at index i.
RemoveAt(inv, i) == SubSeq(inv, 1, i - 1) \o SubSeq(inv, i + 1, Len(inv))

(***************************************************************************)
(* Enemies (class Enemy, game.py:62-102).                                  *)
(***************************************************************************)
Enemy(name, h, strength, agility, magic) ==
    [name |-> name, max_hp |-> h, hp |-> h, strength |-> strength,
     agility |-> agility, magic |-> magic]

\* No encounter is running.
NoEnemy == Enemy("", 0, 0, 0, 0)

CorruptedSapling == Enemy("Corrupted Sapling", 20, 5, 5, 0)
ShadowStalker == Enemy("Shadow Stalker", 40, 10, 14, 5)
CrystalGolem == Enemy("Crystal Golem", 100, 15, 3, 10)
ArchmageValerius == Enemy("Archmage Valerius", 150, 18, 12, 25)

\* Enemy.take_damage losing the damage.
EnemyTakeDamageIgnored(h, damage) == h

\* Enemy.take_damage: the enemy's hp after damage.
EnemyTakeDamage(h, damage) == IF h - damage < 0 THEN 0 ELSE h - damage

\* Player.take_damage without the floor at 0.
PlayerTakeDamageUnclamped(h, damage) == h - damage

\* Player.take_damage: the player's hp after damage.
PlayerTakeDamage(h, damage) == IF h - damage < 0 THEN 0 ELSE h - damage

\* Enemy.attack halving the strength alone.
DefendedDamageStrengthHalved(strength, r) == (strength \div 2) + r

\* Enemy.attack against a defending target: randint(1, 4) rolled r.
DefendedDamage(strength, r) == (strength + r) \div 2

\* Enemy.attack halving the damage of an undefended hit too.
OpenDamageHalved(strength, r) == (strength + r) \div 2

\* Enemy.attack against a target that did not dodge: randint(1, 6) rolled r.
OpenDamage(strength, r) == strength + r

(***************************************************************************)
(* The player (class Player, game.py:108-312).                             *)
(***************************************************************************)
Classes == {"Guardian", "Mage", "Shadow"}

Stats(s, a, m) == [strength |-> s, agility |-> a, magic |-> m]

\* Player.setup_class: the stats, max_hp, max_mp and class weapon of a class.
ClassStats(c) ==
    CASE c = "Guardian" -> Stats(15, 8, 5)
      [] c = "Mage" -> Stats(6, 10, 18)
      [] c = "Shadow" -> Stats(10, 16, 10)

ClassMaxHp(c) ==
    CASE c = "Guardian" -> 120 [] c = "Mage" -> 80 [] c = "Shadow" -> 90

ClassMaxMp(c) ==
    CASE c = "Guardian" -> 30 [] c = "Mage" -> 80 [] c = "Shadow" -> 50

ClassWeapon(c) ==
    CASE c = "Guardian" -> SoldiersSword
      [] c = "Mage" -> ApprenticeStaff
      [] c = "Shadow" -> TwinDaggers

\* setup_class adding one starter potion only.
StarterInventoryOnePotion(c) == <<ClassWeapon(c), HealthPotion>>

\* The inventory setup_class leaves in a new player.
StarterInventory(c) == <<ClassWeapon(c), HealthPotion, HealthPotion>>

\* int(base_damage * 1.8) rounding to the nearest integer.
CritDamageRounded(base_damage) == (base_damage * 18 + 5) \div 10

\* int(base_damage * 1.8): the product in tenths, truncated toward zero.
CritDamage(base_damage) ==
    IF base_damage < 0 THEN -(((-base_damage) * 18) \div 10)
                       ELSE (base_damage * 18) \div 10

\* Player.attack: the damage dealt on roll r of randint(-2, 5); crit is the
\* outcome of the critical-hit check.
AttackDamage(strength, r, crit) ==
    LET base_damage == strength + r
        damage == IF crit THEN CritDamage(base_damage) ELSE base_damage
    IN  IF damage < 1 THEN 1 ELSE damage

\* special_move with a lower cost than it announces.
SpecialCostLowered == 15 - 5

\* Player.special_move: the mana cost.
SpecialCost == 15

\* Player.special_move: the lowest and highest roll of the class.
SpecialLo(c) == CASE c = "Guardian" -> 5 [] c = "Mage" -> 8 [] c = "Shadow" -> 6
SpecialHi(c) == CASE c = "Guardian" -> 10 [] c = "Mage" -> 15 [] c = "Shadow" -> 12

\* special_move adding every class's roll to strength.
SpecialDamageByStrength(c, st, r) == st.strength + r

\* Player.special_move: the damage of the class on roll r.
SpecialDamage(c, st, r) ==
    CASE c = "Guardian" -> st.strength + r
      [] c = "Mage" -> st.magic + r
      [] c = "Shadow" -> st.agility + r

\* use_item without the check for a value that is full already.
AlreadyFullUnchecked(value, max) == FALSE

\* Player.use_item: the value is at its maximum already (game.py:237, 249).
AlreadyFull(value, max) == value = max

\* use_item without the cap at max_hp.
HealedUncapped(h, max, amount) == h + amount

\* Player.use_item, heal branch: hp after adding amount, capped at max.
Healed(h, max, amount) == IF h + amount > max THEN max ELSE h + amount

\* use_item without the cap at max_mp.
RestoredUncapped(m, max, amount) == m + amount

\* Player.use_item, mana branch: mp after adding amount, capped at max.
Restored(m, max, amount) == IF m + amount > max THEN max ELSE m + amount

(***************************************************************************)
(* State.                                                                  *)
(***************************************************************************)
VARIABLES
    pc,           \* where the program waits: the next input() it reads
    game_stage,   \* main: the stage identifier last returned
    char_class,   \* player.char_class
    stats,        \* player.stats
    hp,           \* player.hp
    max_hp,       \* player.max_hp
    mp,           \* player.mp
    max_mp,       \* player.max_mp
    inventory,    \* player.inventory
    is_defending, \* player.is_defending
    enemy,        \* the Enemy of the running encounter
    game_flags,   \* the module-level game_flags
    action,       \* start_combat: the command last read (game.py:348)
    printed,      \* what show_inventory or use_item printed for the last command
    result,       \* the value start_combat returned to the running stage
    caller,       \* the stage that called start_combat
    inputs,       \* the number of commands read so far in a whole game
    typed,        \* prompt: the line input() last returned (game.py:34),
                  \* "" once an encounter has been fought since
    returned      \* the line of the return start_combat left by, 0 before

vars ==
    <<pc, game_stage, char_class, stats, hp, max_hp, mp, max_mp, inventory,
      is_defending, enemy, game_flags, action, printed, result, caller,
      inputs, typed, returned>>

player == <<char_class, stats, hp, max_hp, mp, max_mp, inventory, is_defending>>

\* Player.__init__ and the module-level globals, before character_creation.
Init ==
    /\ pc = "creation"
    /\ game_stage = ""
    /\ char_class = ""
    /\ stats = Stats(0, 0, 0)
    /\ hp = 100
    /\ max_hp = 100
    /\ mp = 50
    /\ max_mp = 50
    /\ inventory = <<>>
    /\ is_defending = FALSE
    /\ enemy = NoEnemy
    /\ game_flags = [golem_befriended |-> FALSE, golem_fought |-> FALSE,
                     golem_sneaked |-> FALSE, has_sunstone |-> FALSE]
    /\ action = ""
    /\ printed = ""
    /\ result = ""
    /\ caller = ""
    /\ inputs = 0
    /\ typed = ""
    /\ returned = 0

(***************************************************************************)
(* Methods of Player and Enemy, as the parts of a step that change the     *)
(* fields they write.                                                      *)
(***************************************************************************)
\* Player.setup_class(c).
SetupClass(c) ==
    /\ char_class' = c
    /\ stats' = ClassStats(c)
    /\ max_hp' = ClassMaxHp(c)
    /\ hp' = ClassMaxHp(c)
    /\ max_mp' = ClassMaxMp(c)
    /\ mp' = ClassMaxMp(c)
    /\ inventory' = inventory \o StarterInventory(c)

\* Player.attack(enemy): writes enemy.
PlayerAttack ==
    \E r \in randint(-2, 5), crit \in {Crits(stats.agility, d) : d \in Draws} :
        enemy' = [enemy EXCEPT !.hp =
                     EnemyTakeDamage(@, AttackDamage(stats.strength, r, crit))]

\* special_move reporting success without enough mana.
SpecialAlwaysSucceeds == TRUE

\* Player.special_move(enemy) returns True.
SpecialSucceeds == ~(mp < SpecialCost)

\* Player.special_move(enemy): writes mp and enemy.
SpecialMove ==
    IF mp < SpecialCost
    THEN UNCHANGED <<mp, enemy>>
    ELSE /\ mp' = mp - SpecialCost
         /\ IF char_class \in Classes
            THEN \E r \in randint(SpecialLo(char_class), SpecialHi(char_class)) :
                    enemy' = [enemy EXCEPT !.hp =
                                 EnemyTakeDamage(@, SpecialDamage(char_class, stats, r))]
            ELSE UNCHANGED enemy

\* Enemy.attack(player): writes hp.
EnemyAttack ==
    IF is_defending
    THEN \E r \in randint(1, 4) :
            hp' = PlayerTakeDamage(hp, DefendedDamage(enemy.strength, r))
    ELSE \E dodged \in {Dodges(stats.agility, d) : d \in Draws} :
            IF dodged
            THEN hp' = hp
            ELSE \E r \in randint(1, 6) :
                    hp' = PlayerTakeDamage(hp, OpenDamage(enemy.strength, r))

\* Player.use_item past the type check (game.py:236-258): the heal and mana
\* branches for the potion inventory[i].
UsePotion(i) ==
    LET item == inventory[i] IN
    IF item.kind = "heal"
    THEN IF AlreadyFull(hp, max_hp)
         THEN UNCHANGED <<hp, mp, inventory>>
         ELSE /\ hp' = Healed(hp, max_hp, item.amount)
              /\ inventory' = RemoveAt(inventory, i)
              /\ UNCHANGED mp
    ELSE IF item.kind = "mana"
    THEN IF AlreadyFull(mp, max_mp)
         THEN UNCHANGED <<hp, mp, inventory>>
         ELSE /\ mp' = Restored(mp, max_mp, item.amount)
              /\ inventory' = RemoveAt(inventory, i)
              /\ UNCHANGED hp
    ELSE UNCHANGED <<hp, mp, inventory>>

\* use_item taking an item it cannot use out of the inventory.
UseItemConsumingUnusable(i) ==
    /\ IF inventory[i].item_type # "potion"
       THEN inventory' = RemoveAt(inventory, i) /\ UNCHANGED <<hp, mp>>
       ELSE UsePotion(i)
    /\ UNCHANGED stats

\* use_item applying the boost of a weapon to the attribute it names.
UseItemApplyingBoost(i) ==
    LET item == inventory[i] IN
    IF item.kind = "boost"
    THEN /\ stats' = [stats EXCEPT ![item.attr] = @ + item.amount]
         /\ UNCHANGED <<hp, mp, inventory>>
    ELSE /\ IF item.item_type # "potion"
            THEN UNCHANGED <<hp, mp, inventory>>
            ELSE UsePotion(i)
         /\ UNCHANGED stats

\* Player.use_item(inventory[i]): writes hp, mp and inventory, and nothing
\* else of the player.
UseItem(i) ==
    /\ IF inventory[i].item_type # "potion"
       THEN UNCHANGED <<hp, mp, inventory>>
       ELSE UsePotion(i)
    /\ UNCHANGED stats

(***************************************************************************)
(* start_combat (game.py:329-391).                                         *)
(***************************************************************************)
\* The test of the while loop for player hp h and enemy e (game.py:338).
LoopRuns(h, e) == h > 0 /\ e.hp > 0

\* start_combat without the victory check after the player's turn.
EnemyDefeatedUnchecked(e) == FALSE

\* not enemy.is_alive() after the player's turn (game.py:375).
EnemyDefeated(e) == ~(e.hp > 0)

\* start_combat without the defeat check after the enemy's turn.
PlayerDefeatedUnchecked(h) == FALSE

\* not player.is_alive() after the enemy's turn (game.py:386).
PlayerDefeated(h) == ~(h > 0)

\* The head of the while loop without the reset of is_defending.
LoopHeadWithoutReset(h, e) ==
    /\ is_defending' = is_defending
    /\ IF LoopRuns(h, e)
       THEN pc' = "player_turn" /\ result' = "" /\ returned' = 0
       ELSE pc' = "after_combat" /\ result' = "defeat" /\ returned' = 391

\* The head of the while loop with player hp h and enemy e: a new player turn
\* with is_defending reset, or the return after the loop.
LoopHead(h, e) ==
    IF LoopRuns(h, e)
    THEN /\ is_defending' = FALSE
         /\ pc' = "player_turn"
         /\ result' = ""
         /\ returned' = 0
    ELSE /\ is_defending' = is_defending
         /\ pc' = "after_combat"
         /\ result' = "defeat"
         /\ returned' = 391

\* A stage calls start_combat(e).
StartCombat(e, stage) ==
    /\ enemy' = e
    /\ caller' = stage
    /\ action' = ""
    /\ LoopHead(hp, e)

\* One more command is read: counted in a whole game, which is explored up to
\* MaxInputs commands; an encounter run on its own is explored to its end.
ReadInput ==
    /\ UNCHANGED typed
    /\ IF caller = "test"
       THEN UNCHANGED inputs
       ELSE inputs < MaxInputs /\ inputs' = inputs + 1

\* 'attack' at the combat prompt.
CmdAttack ==
    /\ pc = "player_turn"
    /\ ReadInput
    /\ printed' = ""
    /\ action' = "attack"
    /\ PlayerAttack
    /\ pc' = "enemy_turn"
    /\ UNCHANGED <<game_stage, char_class, stats, hp, max_hp, mp, max_mp,
                   inventory, is_defending, game_flags, result, returned,
                   caller>>

\* 'special' at the combat prompt: action_taken is what special_move returns.
CmdSpecial ==
    /\ pc = "player_turn"
    /\ ReadInput
    /\ printed' = ""
    /\ action' = "special"
    /\ SpecialMove
    /\ pc' = IF SpecialSucceeds THEN "enemy_turn" ELSE "player_turn"
    /\ UNCHANGED <<game_stage, char_class, stats, hp, max_hp, max_mp,
                   inventory, is_defending, game_flags, result, returned,
                   caller>>

\* 'defend' at the combat prompt.
CmdDefend ==
    /\ pc = "player_turn"
    /\ ReadInput
    /\ printed' = ""
    /\ action' = "defend"
    /\ is_defending' = TRUE
    /\ pc' = "enemy_turn"
    /\ UNCHANGED <<game_stage, char_class, stats, hp, max_hp, mp, max_mp,
                   inventory, enemy, game_flags, result, returned, caller>>

\* 'item' on an empty bag counted as the player's action of the turn.
CmdItemEndsTurn ==
    /\ pc = "player_turn"
    /\ ReadInput
    /\ printed' = ""
    /\ action' = "item"
    /\ pc' = IF inventory = <<>> THEN "enemy_turn" ELSE "inventory"
    /\ UNCHANGED <<game_stage, char_class, stats, hp, max_hp, mp, max_mp,
                   inventory, is_defending, enemy, game_flags,
                   result, returned, caller>>

\* 'item' at the combat prompt: show_inventory returns at once on an empty bag
\* and reads a command otherwise.
CmdItem ==
    /\ pc = "player_turn"
    /\ ReadInput
    /\ printed' = ""
    /\ action' = "item"
    /\ pc' = IF inventory = <<>> THEN "player_turn" ELSE "inventory"
    /\ UNCHANGED <<game_stage, char_class, stats, hp, max_hp, mp, max_mp,
                   inventory, is_defending, enemy, game_flags,
                   result, returned, caller>>

\* 'flee' whose failure does not cost the turn.
CmdFleeFailureKeepsTurn ==
    /\ pc = "player_turn"
    /\ ReadInput
    /\ printed' = ""
    /\ action' = "flee"
    /\ \E fled \in {FleeSucceeds(d) : d \in Draws} :
          IF fled
          THEN pc' = "after_combat" /\ result' = "fled" /\ returned' = 366
          ELSE pc' = "player_turn" /\ result' = result
                                  /\ returned' = returned
    /\ UNCHANGED <<game_stage, char_class, stats, hp, max_hp, mp, max_mp,
                   inventory, is_defending, enemy, game_flags,
                   caller>>

\* 'flee' at the combat prompt.
CmdFlee ==
    /\ pc = "player_turn"
    /\ ReadInput
    /\ printed' = ""
    /\ action' = "flee"
    /\ \E fled \in {FleeSucceeds(d) : d \in Draws} :
          IF fled
          THEN pc' = "after_combat" /\ result' = "fled" /\ returned' = 366
          ELSE pc' = "enemy_turn" /\ result' = result
                                 /\ returned' = returned
    /\ UNCHANGED <<game_stage, char_class, stats, hp, max_hp, mp, max_mp,
                   inventory, is_defending, enemy, game_flags,
                   caller>>

\* An unrecognized command costing the turn.
CmdInvalidEndsTurn ==
    /\ pc = "player_turn"
    /\ ReadInput
    /\ printed' = ""
    /\ action' = "invalid"
    /\ pc' = "enemy_turn"
    /\ UNCHANGED <<game_stage, char_class, stats, hp, max_hp, mp, max_mp,
                   inventory, is_defending, enemy, game_flags, result, returned,
                   caller>>

\* Any other text at the combat prompt.
CmdInvalid ==
    /\ pc = "player_turn"
    /\ ReadInput
    /\ printed' = ""
    /\ action' = "invalid"
    /\ UNCHANGED <<pc, game_stage, char_class, stats, hp, max_hp, mp, max_mp,
                   inventory, is_defending, enemy, game_flags,
                   result, returned, caller>>

\* After the turn-ending action (game.py:374-389): the victory check, the
\* enemy's attack, the defeat check and the head of the loop.
EnemyTurn ==
    /\ pc = "enemy_turn"
    /\ IF EnemyDefeated(enemy)
       THEN /\ result' = "victory"
            /\ returned' = 377
            /\ pc' = "after_combat"
            /\ UNCHANGED <<hp, is_defending>>
       ELSE /\ EnemyAttack
            /\ IF PlayerDefeated(hp')
               THEN /\ result' = "defeat"
                    /\ returned' = 387
                    /\ pc' = "after_combat"
                    /\ UNCHANGED is_defending
               ELSE LoopHead(hp', enemy)
    /\ UNCHANGED <<game_stage, char_class, stats, max_hp, mp, max_mp,
                   inventory, enemy, game_flags, action, printed, caller,
                   inputs, typed>>

(***************************************************************************)
(* Player.show_inventory (game.py:171-226), entered by 'item'.             *)
(***************************************************************************)
\* The first words a player can type before an item name.
Verbs == {"use", "view", "discard", "drop"}

\* What use_item prints for inventory[i].
UseMessage(i) ==
    LET item == inventory[i] IN
    IF item.item_type # "potion" THEN "cannot use"
    ELSE IF item.kind = "heal"
    THEN IF AlreadyFull(hp, max_hp) THEN "health full" ELSE "restores hp"
    ELSE IF item.kind = "mana"
    THEN IF AlreadyFull(mp, max_mp) THEN "mana full" ELSE "restores mp"
    ELSE ""

\* 'back' at the inventory prompt.
InvBack ==
    /\ pc = "inventory"
    /\ ReadInput
    /\ pc' = "player_turn"
    /\ printed' = ""
    /\ UNCHANGED <<game_stage, char_class, stats, hp, max_hp, mp, max_mp,
                   inventory, is_defending, enemy, game_flags, action,
                   result, returned, caller>>

\* A malformed command closing the inventory screen.
InvMalformedLeaves ==
    /\ pc = "inventory"
    /\ ReadInput
    /\ printed' = "invalid format"
    /\ pc' = "player_turn"
    /\ UNCHANGED <<game_stage, char_class, stats, hp, max_hp, mp, max_mp,
                   inventory, is_defending, enemy, game_flags, action,
                   result, returned, caller>>

\* A single word other than 'back': split raises ValueError.
InvMalformed ==
    /\ pc = "inventory"
    /\ ReadInput
    /\ printed' = "invalid format"
    /\ UNCHANGED <<pc, game_stage, char_class, stats, hp, max_hp, mp, max_mp,
                   inventory, is_defending, enemy, game_flags, action,
                   result, returned, caller>>

\* '<verb> <item_name>' at the inventory prompt.
InvCommand ==
    /\ pc = "inventory"
    /\ ReadInput
    /\ \E verb \in Verbs, item_name \in TypedNames(inventory) :
          LET i == FindItem(inventory, item_name) IN
          IF i = 0
          THEN /\ printed' = "not found"
               /\ UNCHANGED <<pc, stats, hp, mp, inventory>>
          ELSE IF verb = "use"
          THEN /\ UseItem(i)
               /\ printed' = UseMessage(i)
               /\ pc' = "player_turn"
          ELSE IF verb = "view"
          THEN /\ printed' = "view"
               /\ UNCHANGED <<pc, stats, hp, mp, inventory>>
          ELSE IF verb = "discard"
          THEN /\ inventory' = RemoveAt(inventory, i)
               /\ printed' = "discarded"
               /\ UNCHANGED <<pc, stats, hp, mp>>
          ELSE /\ printed' = "invalid command"
               /\ UNCHANGED <<pc, stats, hp, mp, inventory>>
    /\ UNCHANGED <<game_stage, char_class, max_hp, max_mp,
                   is_defending, enemy, game_flags, action, result, returned, caller>>

(***************************************************************************)
(* The story (game.py:398-687) and main (game.py:746-776).                 *)
(***************************************************************************)
\* The lines a player can type at a menu: nothing, a word, the numbers around
\* the range of every menu, a number with blanks around it, and a digit that
\* is no decimal digit.
Entries == {"", "abc", "0", "1", "2", "3", "4", "5", " 4 ", "²"}

\* str.strip() on the lines of Entries.
strip(text) == IF text = " 4 " THEN "4" ELSE text

\* str.isdigit() on the stripped lines of Entries: true of a non-empty text
\* of digit characters, the superscript two among them.
isdigit(text) == text \in {"0", "1", "2", "3", "4", "5", "²"}

\* The texts of Entries int() converts; on any other text it raises
\* ValueError.
IntParses(text) == text \in {"0", "1", "2", "3", "4", "5"}

\* int(text) for a text it converts.
int(text) ==
    CASE text = "0" -> 0
      [] text = "1" -> 1
      [] text = "2" -> 2
      [] text = "3" -> 3
      [] text = "4" -> 4
      [] text = "5" -> 5

\* One pass of the loop of prompt(text, options) on the line entry
\* (game.py:33-39): it returns, it prints the error and reads again, or
\* int() raises.
PromptOutcome(entry, options) ==
    LET choice == strip(entry) IN
    IF ~isdigit(choice) THEN "again"
    ELSE IF ~IntParses(choice) THEN "raise"
    ELSE IF 1 <= int(choice) /\ int(choice) <= Len(options) THEN "return"
    ELSE "again"

\* prompt(text, options): the number it returns on a line it accepts.
prompt(entry, options) == int(strip(entry))

\* The entries prompt returns on, for the menu options.
Accepted(options) == {entry \in Entries : PromptOutcome(entry, options) = "return"}

\* list.insert(i, x) with a 0-based index i.
Insert(list, i, x) == SubSeq(list, 1, i) \o <<x>> \o SubSeq(list, i + 1, Len(list))

\* The options of the class menu (game.py:414-418).
ClassOptions == <<"Guardian", "Mage", "Shadow">>

\* character_creation: the class menu and setup_class.
CharacterCreation ==
    /\ pc = "creation"
    /\ \E entry \in Accepted(ClassOptions) :
          LET choice == prompt(entry, ClassOptions) IN
          /\ typed' = entry
          /\ SetupClass(CASE choice = 1 -> "Guardian"
                          [] choice = 2 -> "Mage"
                          [] choice = 3 -> "Shadow")
    /\ game_stage' = "stage_1"
    /\ pc' = "main"
    /\ UNCHANGED <<is_defending, enemy, game_flags, action, printed, result, returned,
                   caller, inputs>>

\* A stage returns stage to main; its locals are gone.
Return(stage) ==
    /\ game_stage' = stage
    /\ pc' = "main"
    /\ result' = ""
    /\ returned' = 0
    /\ caller' = ""

\* The options of the menu of stage 1 (game.py:443-447).
AcademyOptions == <<"library", "tunnels", "reason">>

\* stage_1_academy up to the combat prompt or its return.
Stage1 ==
    /\ pc = "main"
    /\ game_stage = "stage_1"
    /\ \E entry \in Accepted(AcademyOptions) :
          LET choice == prompt(entry, AcademyOptions) IN
          /\ typed' = entry
          /\ IF choice = 1
             THEN /\ StartCombat(CorruptedSapling, "stage_1")
                  /\ UNCHANGED <<game_stage, hp, inventory>>
             ELSE /\ hp' = IF choice = 3 THEN PlayerTakeDamage(hp, 25) ELSE hp
                  /\ inventory' = Append(inventory, ManaPotion)
                  /\ Return("stage_2")
                  /\ UNCHANGED <<is_defending, enemy, action>>
    /\ UNCHANGED <<char_class, stats, max_hp, mp, max_mp, game_flags,
                   printed, inputs>>

\* stage_2_woods up to the combat prompt.
Stage2 ==
    /\ pc = "main"
    /\ game_stage = "stage_2"
    /\ StartCombat(ShadowStalker, "stage_2")
    /\ UNCHANGED <<game_stage, char_class, stats, hp, max_hp, mp, max_mp,
                   inventory, game_flags, printed, inputs, typed>>

\* The options of the Treant menu (game.py:504-508).
TreantOptions ==
    LET choice_options == <<"help", "sneak", "threaten">> IN
    IF char_class = "Mage" THEN Insert(choice_options, 1, "cleanse")
                           ELSE choice_options

\* stage_2_woods from the Treant menu to its return (game.py:510-545).
Treant ==
    /\ pc = "treant"
    /\ \E entry \in Accepted(TreantOptions) :
          LET choice == prompt(entry, TreantOptions) IN
          /\ typed' = entry
          /\ IF char_class = "Mage" /\ choice = 2
             THEN /\ mp' = mp - 20
                  /\ max_hp' = max_hp + 10
                  /\ hp' = hp + 10
                  /\ UNCHANGED inventory
             ELSE IF choice = 1
             THEN /\ inventory' = Append(inventory, SeedOfLife)
                  /\ UNCHANGED <<hp, max_hp, mp>>
             ELSE IF char_class = "Mage" /\ choice = 3
             THEN /\ hp' = PlayerTakeDamage(hp, 10)
                  /\ UNCHANGED <<max_hp, mp, inventory>>
             ELSE IF char_class # "Mage" /\ choice = 2
             THEN /\ hp' = IF stats.agility > 12 THEN hp
                                                 ELSE PlayerTakeDamage(hp, 10)
                  /\ UNCHANGED <<max_hp, mp, inventory>>
             ELSE /\ hp' = PlayerTakeDamage(hp, 15)
                  /\ UNCHANGED <<max_hp, mp, inventory>>
    /\ Return("stage_3")
    /\ UNCHANGED <<char_class, stats, max_mp, is_defending, enemy,
                   game_flags, action, printed, inputs>>

\* The options of the Golem menu (game.py:557-566).
GolemOptions ==
    LET base == <<"demand", "attack">>
        with_magic == IF stats.magic > 15 THEN Append(base, "reason") ELSE base
    IN  IF stats.agility > 15 THEN Append(with_magic, "sneak") ELSE with_magic

\* stage_3_caves resolving the choice by its index alone, without the tests
\* of magic and agility.
GolemPathByIndex(choice) ==
    IF choice = 3 THEN "talk" ELSE IF choice = 4 THEN "sneak" ELSE "fight"

\* The path stage_3_caves resolves choice to (game.py:571-586).
GolemPath(choice) ==
    IF stats.magic > 15 /\ choice = 3 THEN "talk"
    ELSE IF stats.agility > 15 /\ choice = (IF stats.magic > 15 THEN 4 ELSE 3)
    THEN "sneak"
    ELSE "fight"

\* A path of stage 3 that sets its flag and forgets has_sunstone.
GolemFlagsWithoutSunstone(flag) == [game_flags EXCEPT ![flag] = TRUE]

\* The flags after a path of stage 3 (game.py:600-601, 610-611, 626-627).
GolemFlags(flag) == [game_flags EXCEPT ![flag] = TRUE, !.has_sunstone = TRUE]

\* stage_3_caves up to the combat prompt or its return.
Stage3 ==
    /\ pc = "main"
    /\ game_stage = "stage_3"
    /\ \E entry \in Accepted(GolemOptions) :
          LET path == GolemPath(prompt(entry, GolemOptions)) IN
          /\ typed' = entry
          /\ IF path = "talk"
             THEN /\ inventory' = Append(inventory, SunstoneShard)
                  /\ game_flags' = GolemFlags("golem_befriended")
                  /\ Return("stage_4")
                  /\ UNCHANGED <<is_defending, enemy, action>>
             ELSE IF path = "sneak"
             THEN /\ inventory' = Append(inventory, TheSunstone)
                  /\ game_flags' = GolemFlags("golem_sneaked")
                  /\ Return("stage_4")
                  /\ UNCHANGED <<is_defending, enemy, action>>
             ELSE /\ StartCombat(CrystalGolem, "stage_3")
                  /\ UNCHANGED <<game_stage, inventory, game_flags>>
    /\ UNCHANGED <<char_class, stats, hp, max_hp, mp, max_mp, printed,
                   inputs>>

\* stage_4_spire up to the combat prompt.
Stage4 ==
    /\ pc = "main"
    /\ game_stage = "stage_4"
    /\ StartCombat(ArchmageValerius, "stage_4")
    /\ UNCHANGED <<game_stage, char_class, stats, hp, max_hp, mp, max_mp,
                   inventory, game_flags, printed, inputs, typed>>

\* start_combat has returned result: the calling stage goes on to its next
\* menu or to its return.
AfterCombat ==
    /\ pc = "after_combat"
    /\ caller \in {"stage_1", "stage_2", "stage_3", "stage_4"}
    /\ enemy' = NoEnemy
    /\ action' = ""
    /\ printed' = ""
    /\ typed' = ""
    /\ IF result = "defeat"
       THEN /\ Return("game_over")
            /\ UNCHANGED <<inventory, game_flags>>
       ELSE CASE caller = "stage_1" ->
                   /\ inventory' = Append(inventory, ManaPotion)
                   /\ Return("stage_2")
                   /\ UNCHANGED game_flags
              [] caller = "stage_2" ->
                   /\ inventory' = IF result = "victory"
                                   THEN Append(inventory, GreaterHealthPotion)
                                   ELSE inventory
                   /\ pc' = "treant"
                   /\ UNCHANGED <<game_stage, game_flags, result, returned, caller>>
              [] caller = "stage_3" ->
                   /\ inventory' = Append(inventory, TheSunstone)
                   /\ game_flags' = GolemFlags("golem_fought")
                   /\ Return("stage_4")
              [] caller = "stage_4" ->
                   /\ pc' = "final_choice"
                   /\ UNCHANGED <<game_stage, inventory, game_flags, result, returned,
                                  caller>>
    /\ UNCHANGED <<char_class, stats, hp, max_hp, mp, max_mp, is_defending,
                   inputs>>

\* The options of the last menu (game.py:663-670).
FinalOptions ==
    LET final_choice_options == <<"destroy", "take">> IN
    IF game_flags.golem_befriended
    THEN Insert(final_choice_options, 0, "purify")
    ELSE final_choice_options

\* stage_4_spire returning the good ending for the first option of either
\* menu.
EndingWithoutGolem(final_choice) ==
    CASE final_choice = 1 -> "ending_good"
      [] final_choice = 2 -> IF game_flags.golem_befriended
                             THEN "ending_neutral" ELSE "ending_bad"
      [] OTHER -> "ending_bad"

\* The ending stage_4_spire returns for final_choice (game.py:674-687).
Ending(final_choice) ==
    IF game_flags.golem_befriended
    THEN CASE final_choice = 1 -> "ending_good"
           [] final_choice = 2 -> "ending_neutral"
           [] final_choice = 3 -> "ending_bad"
           [] OTHER -> "ending_neutral"
    ELSE CASE final_choice = 1 -> "ending_neutral"
           [] final_choice = 2 -> "ending_bad"
           [] OTHER -> "ending_neutral"

\* stage_4_spire from the last menu to its return.
FinalChoice ==
    /\ pc = "final_choice"
    /\ \E entry \in Accepted(FinalOptions) :
          /\ typed' = entry
          /\ Return(Ending(prompt(entry, FinalOptions)))
    /\ UNCHANGED <<char_class, stats, hp, max_hp, mp, max_mp, inventory,
                   is_defending, enemy, game_flags, action, printed, inputs>>

\* The program waits in prompt, at one of the five menus of the story.
AtMenu ==
    \/ pc \in {"creation", "treant", "final_choice"}
    \/ pc = "main" /\ game_stage \in {"stage_1", "stage_3"}

\* The options of the menu the program waits at.
MenuOptions ==
    CASE pc = "creation" -> ClassOptions
      [] pc = "treant" -> TreantOptions
      [] pc = "final_choice" -> FinalOptions
      [] pc = "main" /\ game_stage = "stage_1" -> AcademyOptions
      [] pc = "main" /\ game_stage = "stage_3" -> GolemOptions

\* prompt reads a line it does not accept: it prints the error and reads
\* again (game.py:37-39).
Reprompt ==
    /\ AtMenu
    /\ \E entry \in Entries :
          /\ PromptOutcome(entry, MenuOptions) = "again"
          /\ typed' = entry
    /\ UNCHANGED <<pc, game_stage, char_class, stats, hp, max_hp, mp, max_mp,
                   inventory, is_defending, enemy, game_flags, action,
                   printed, result, returned, caller, inputs>>

\* prompt reads a line of digits int() does not convert: the ValueError of
\* game.py:35 is caught nowhere and ends the program.
PromptRaises ==
    /\ AtMenu
    /\ \E entry \in Entries :
          /\ PromptOutcome(entry, MenuOptions) = "raise"
          /\ typed' = entry
    /\ pc' = "ValueError"
    /\ UNCHANGED <<game_stage, char_class, stats, hp, max_hp, mp, max_mp,
                   inventory, is_defending, enemy, game_flags, action,
                   printed, result, returned, caller, inputs>>

\* main leaves its loop and prints the conclusion.
Conclude ==
    /\ pc = "main"
    /\ game_stage = "game_over" \/ game_stage \in {"ending_good", "ending_neutral", "ending_bad"}
    /\ pc' = "done"
    /\ UNCHANGED <<game_stage, char_class, stats, hp, max_hp, mp, max_mp,
                   inventory, is_defending, enemy, game_flags, action,
                   printed, result, returned, caller, inputs, typed>>

(***************************************************************************)
(* The methods and start_combat exercised on their own, on a player and an *)
(* enemy set up the way src/test_game.py sets them up: setup_class, then   *)
(* hp, mp, is_defending and the inventory assigned.                        *)
(***************************************************************************)
\* Enemy("Test Golem", h, strength, 5, 0) of test_game.py:116.
TestGolem(h, strength) == Enemy("Test Golem", h, strength, 5, 0)

\* The hp of the Test Golem and its strength in test_game.py:116.
TestGolemHp == 50
TestGolemStrength == 10

\* The mp test_player_special_move_no_mp assigns (test_game.py:162).
TestLowMp == 10

\* How far below max_hp test_use_health_potion_overheal sets the hp
\* (test_game.py:96-97: 120 - 110).
TestOverheal == 10

\* An inventory with an item of every kind of the game.
TestInventory(c) ==
    <<ClassWeapon(c), HealthPotion, HealthPotion, ManaPotion, SeedOfLife,
      SunstoneShard>>

\* A player of class c with the fields h, m, inv, defending assigned, and the
\* enemy e, before the call under test.
TestSetup(c, h, m, inv, defending, e) ==
    /\ pc = "test"
    /\ caller = "test"
    /\ game_stage = ""
    /\ char_class = c
    /\ stats = ClassStats(c)
    /\ max_hp = ClassMaxHp(c)
    /\ hp = h
    /\ max_mp = ClassMaxMp(c)
    /\ mp = m
    /\ inventory = inv
    /\ is_defending = defending
    /\ enemy = e
    /\ game_flags = [golem_befriended |-> FALSE, golem_fought |-> FALSE,
                     golem_sneaked |-> FALSE, has_sunstone |-> FALSE]
    /\ action = ""
    /\ printed = ""
    /\ result = ""
    /\ inputs = 0
    /\ typed = ""
    /\ returned = 0

\* The setups of the method tests: the hp and the enemy's strength vary, or
\* the mp and the enemy's hp do.
InitTest ==
    \E c \in Classes, defending \in BOOLEAN :
        \/ \E h \in (0..MaxTestHp)
                      \union {ClassMaxHp(c) - TestOverheal, ClassMaxHp(c)},
              strength \in 0..MaxTestStrength :
              TestSetup(c, h, ClassMaxMp(c), TestInventory(c), defending,
                        TestGolem(TestGolemHp, strength))
        \/ \E m \in (0..MaxTestMp) \union {ClassMaxMp(c)},
              h \in {MaxTestHp, TestGolemHp} :
              TestSetup(c, ClassMaxHp(c), m, TestInventory(c), defending,
                        TestGolem(h, TestGolemStrength))

\* The end of a test of method: action names the method called.
Tested(method) ==
    /\ pc' = "done"
    /\ action' = method
    /\ UNCHANGED <<game_stage, char_class, max_hp, max_mp,
                   is_defending, game_flags, caller, inputs, typed>>

\* player.attack(enemy).
TestAttack ==
    /\ pc = "test"
    /\ PlayerAttack
    /\ Tested("Player.attack")
    /\ UNCHANGED <<stats, hp, mp, inventory, printed, result, returned>>

\* success = player.special_move(enemy).
TestSpecialMove ==
    /\ pc = "test"
    /\ SpecialMove
    /\ result' = IF SpecialSucceeds THEN "True" ELSE "False"
    /\ Tested("Player.special_move")
    /\ UNCHANGED <<stats, hp, inventory, printed, returned>>

\* enemy.attack(player).
TestEnemyAttack ==
    /\ pc = "test"
    /\ EnemyAttack
    /\ Tested("Enemy.attack")
    /\ UNCHANGED <<stats, mp, inventory, enemy, printed, result, returned>>

\* player.take_damage(damage).
TestTakeDamage ==
    /\ pc = "test"
    /\ \E damage \in 0..MaxTestDamage : hp' = PlayerTakeDamage(hp, damage)
    /\ Tested("Player.take_damage")
    /\ UNCHANGED <<stats, mp, inventory, enemy, printed, result, returned>>

\* player.use_item(item) for an item of the inventory.
TestUseItem ==
    /\ pc = "test"
    /\ \E i \in 1..Len(inventory) : UseItem(i) /\ printed' = UseMessage(i)
    /\ Tested("Player.use_item")
    /\ UNCHANGED <<enemy, result, returned>>

\* player.use_item(item) once more, after a first use.
TestUseItemAgain ==
    /\ pc = "done"
    /\ action = "Player.use_item"
    /\ \E i \in 1..Len(inventory) : UseItem(i) /\ printed' = UseMessage(i)
    /\ UNCHANGED <<pc, game_stage, char_class, max_hp, max_mp, is_defending,
                   enemy, game_flags, action, result, returned, caller, inputs, typed>>

NextTest ==
    \/ TestAttack
    \/ TestSpecialMove
    \/ TestEnemyAttack
    \/ TestTakeDamage
    \/ TestUseItem
    \/ TestUseItemAgain

SpecTest == InitTest /\ [][NextTest]_vars

\* The setups of the encounters run on their own: a player about to die or
\* already dead, low on mana or not, against a Test Golem of CombatEnemyHp hp.
InitCombat ==
    \E c \in Classes, h \in {0, CombatHp}, defending \in BOOLEAN :
      \E m \in {TestLowMp, ClassMaxMp(c)} :
        TestSetup(c, h, m, <<ClassWeapon(c), HealthPotion, ManaPotion>>,
                  defending, TestGolem(CombatEnemyHp, TestGolemStrength))

\* result = start_combat(enemy).
TestStartCombat ==
    /\ pc = "test"
    /\ StartCombat(enemy, "test")
    /\ UNCHANGED <<game_stage, char_class, stats, hp, max_hp, mp, max_mp,
                   inventory, game_flags, printed, inputs, typed>>

\* start_combat has returned to the test.
TestReturn ==
    /\ pc = "after_combat"
    /\ caller = "test"
    /\ pc' = "done"
    /\ UNCHANGED <<game_stage, char_class, stats, hp, max_hp, mp, max_mp,
                   inventory, is_defending, enemy, game_flags, action,
                   printed, result, returned, caller, inputs, typed>>

NextCombat ==
    \/ TestStartCombat
    \/ CmdAttack
    \/ CmdSpecial
    \/ CmdDefend
    \/ CmdItem
    \/ CmdFlee
    \/ CmdInvalid
    \/ InvBack
    \/ InvMalformed
    \/ InvCommand
    \/ EnemyTurn
    \/ TestReturn

SpecCombat == InitCombat /\ [][NextCombat]_vars

Next ==
    \/ CharacterCreation
    \/ Stage1
    \/ Stage2
    \/ Treant
    \/ Stage3
    \/ Stage4
    \/ CmdAttack
    \/ CmdSpecial
    \/ CmdDefend
    \/ CmdItem
    \/ CmdFlee
    \/ CmdInvalid
    \/ InvBack
    \/ InvMalformed
    \/ InvCommand
    \/ EnemyTurn
    \/ AfterCombat
    \/ FinalChoice
    \/ Conclude

\* A whole game whose player types, at the menus, lines the menu accepts.
Spec == Init /\ [][Next]_vars

\* An encounter that keeps running: the program goes on while it can, and the
\* player answers every prompt.
SpecCombatLive == SpecCombat /\ WF_vars(NextCombat)

\* A whole game whose player also types lines the menus do not accept.
NextMenus ==
    \/ Next
    \/ Reprompt
    \/ PromptRaises

SpecMenus == Init /\ [][NextMenus]_vars

\* stage_2_woods at the Treant menu after a long fight with the Shadow
\* Stalker: the player has h hp left, 1 <= h <= WoodsHp, and the potions and
\* mana of the start; the fight was won or fled from, and took all but two
\* of the commands a whole game is explored for.
InitWoods ==
    \E c \in Classes, h \in 1..WoodsHp, res \in {"victory", "fled"} :
        /\ pc = "treant"
        /\ game_stage = "stage_2"
        /\ char_class = c
        /\ stats = ClassStats(c)
        /\ max_hp = ClassMaxHp(c)
        /\ hp = h
        /\ max_mp = ClassMaxMp(c)
        /\ mp = ClassMaxMp(c)
        /\ inventory = StarterInventory(c) \o <<ManaPotion>> \o
                         (IF res = "victory" THEN <<GreaterHealthPotion>>
                                             ELSE <<>>)
        /\ is_defending = FALSE
        /\ enemy = NoEnemy
        /\ game_flags = [golem_befriended |-> FALSE, golem_fought |-> FALSE,
                         golem_sneaked |-> FALSE, has_sunstone |-> FALSE]
        /\ action = ""
        /\ printed = ""
        /\ result = res
        /\ returned = IF res = "victory" THEN 377 ELSE 366
        /\ caller = "stage_2"
        /\ inputs = MaxInputs - 2
        /\ typed = ""

\* The story from the Treant menu on.
NextWoods ==
    \/ Treant
    \/ Stage3
    \/ Stage4
    \/ CmdAttack
    \/ CmdSpecial
    \/ CmdDefend
    \/ CmdItem
    \/ CmdFlee
    \/ CmdInvalid
    \/ InvBack
    \/ InvMalformed
    \/ InvCommand
    \/ EnemyTurn
    \/ AfterCombat
    \/ FinalChoice
    \/ Conclude

SpecWoods == InitWoods /\ [][NextWoods]_vars

\* A whole game, and the encounters run on their own.
SpecPlay == (Init \/ InitCombat) /\ [][Next \/ NextCombat]_vars

(***************************************************************************)
(* Properties.                                                             *)
(***************************************************************************)
Max0(n) == IF n < 0 THEN 0 ELSE n

\* C1: in every state of a game or of an encounter, the player's hp is within
\* 0..max_hp and the enemy's hp within 0..its max_hp.
C1_HealthInRange ==
    /\ 0 <= hp /\ hp <= max_hp
    /\ 0 <= enemy.hp /\ enemy.hp <= enemy.max_hp

\* A potion has just restored hp up to the cap, in a fight where both sides
\* have been hurt.
C1_Witness ==
    /\ printed = "restores hp"
    /\ hp = max_hp
    /\ 0 < enemy.hp /\ enemy.hp < enemy.max_hp

\* C2: in every state of a game the player's mp is within 0..max_mp.
C2_ManaInRange == 0 <= mp /\ mp <= max_mp

\* A Mage who spent three special moves before cleansing the Treant's roots.
C2_Witness ==
    /\ char_class = "Mage"
    /\ game_stage = "stage_3"
    /\ max_hp = ClassMaxHp("Mage") + 10
    /\ mp = ClassMaxMp("Mage") - 3 * 15 - 20

\* The values start_combat returns.
CombatResults == {"victory", "defeat", "fled"}

\* C3 as stated: every encounter returns, with one of the three results, and
\* nothing of the encounter happens after the return.
C3_AlwaysReturns ==
    /\ <>(pc = "done")
    /\ [](pc \in {"after_combat", "done"} => result \in CombatResults)
    /\ [][(pc \in {"after_combat", "done"})
            => UNCHANGED <<hp, mp, inventory, is_defending, enemy, result>>]_vars

\* C3, amended: start_combat returns unless, from some point on, the player
\* never ends a turn (item, unrecognized and failed special commands only) or
\* ends every turn with a flee that fails; when it returns, the result is one
\* of the three and nothing of the encounter happens afterwards.
C3_ReturnsUnlessStalled ==
    /\ \/ <>(pc = "done")
       \/ <>[](pc \in {"player_turn", "inventory"})
       \/ <>[](pc = "enemy_turn" => action = "flee")
    /\ [](pc \in {"after_combat", "done"} => result \in CombatResults)
    /\ [][(pc \in {"after_combat", "done"})
            => UNCHANGED <<hp, mp, inventory, is_defending, enemy, result>>]_vars

\* start_combat has returned 'fled' to a player whom the enemy had hit.
C3_Witness ==
    /\ pc = "done"
    /\ result = "fled"
    /\ 0 < hp /\ hp < CombatHp
    /\ enemy.hp > 0

\* C4: when the enemy's hp is 0 after the player's turn-ending action,
\* start_combat returns 'victory' with the player's hp unchanged: the enemy
\* does not attack.
C4_VictoryBeforeEnemyActs ==
    [][(pc = "enemy_turn" /\ enemy.hp = 0)
         => (pc' = "after_combat" /\ result' = "victory" /\ hp' = hp)]_vars

\* start_combat has returned 'victory' over a dead enemy.
C4_Witness == pc = "after_combat" /\ result = "victory" /\ enemy.hp = 0

\* C5: is_defending is false whenever the player is asked for a command, only
\* the 'defend' command sets it, and when the enemy is about to act it is true
\* exactly if the command that ended the player's turn was 'defend'.
C5_DefendingOnlyAfterDefend ==
    /\ [](pc \in {"player_turn", "inventory"} => ~is_defending)
    /\ [](pc = "enemy_turn" => (is_defending <=> action = "defend"))
    /\ [][(~is_defending /\ is_defending')
            => (pc = "player_turn" /\ action' = "defend")]_vars

\* The enemy is about to attack a player who defended in a later round than
\* the first: the player has been hurt already.
C5_Witness ==
    /\ pc = "enemy_turn"
    /\ is_defending
    /\ action = "defend"
    /\ 0 < hp /\ hp < CombatHp
    /\ enemy.hp > 0

\* The commands that end the player's turn, given the mp before them and the
\* result after them.
C6_TurnEnding(a, m, res) ==
    \/ a \in {"attack", "defend"}
    \/ a = "special" /\ m >= 15
    \/ a = "flee" /\ res # "fled"

\* C6: the player acts first; a command leads to the enemy's turn exactly if
\* it ends the player's turn; the enemy's turn is one attack at most, after
\* which the player is asked again or the encounter is over; the player is
\* hurt in the enemy's turn only, and only by a living enemy.
C6_TurnsAlternate ==
    [][/\ pc = "test" => pc' \in {"player_turn", "after_combat"}
       /\ pc = "player_turn" =>
             /\ C6_TurnEnding(action', mp, result') <=> pc' = "enemy_turn"
             /\ hp' = hp
       /\ pc = "inventory" => pc' \in {"inventory", "player_turn"}
       /\ pc = "enemy_turn" =>
             /\ pc' \in {"player_turn", "after_combat"}
             /\ hp - hp' <= enemy.strength + 6
       /\ hp' < hp => pc = "enemy_turn" /\ enemy.hp > 0]_vars

\* The enemy's turn after a failed flee.
C6_Witness ==
    /\ pc = "enemy_turn"
    /\ action = "flee"
    /\ enemy.hp > 0

\* C7: against a defending player Enemy.attack always lands and leaves the
\* player max(0, hp - floor((strength + r) / 2)) hp for an r of 1..4.
C7_DefendedAttack ==
    [][(pc = "test" /\ action' = "Enemy.attack" /\ is_defending)
         => /\ \E r \in 1..4 :
                  hp' = Max0(hp - ((enemy.strength + r) \div 2))
            /\ UNCHANGED <<mp, inventory, is_defending, enemy>>]_vars

\* test_enemy_attack_and_player_defend: a defending Mage of 80 hp is left 73
\* by an enemy of strength 10.
C7_Witness ==
    /\ pc = "done"
    /\ action = "Enemy.attack"
    /\ is_defending
    /\ char_class = "Mage"
    /\ enemy.strength = 10
    /\ hp = 73

\* C8: against a player who is not defending Enemy.attack either is dodged and
\* changes nothing of the player, or leaves max(0, hp - (strength + r)) hp for
\* an r of 1..6 and changes nothing else.
C8_OpenAttack ==
    [][(pc = "test" /\ action' = "Enemy.attack" /\ ~is_defending)
         => /\ \/ hp' = hp
               \/ \E r \in 1..6 : hp' = Max0(hp - (enemy.strength + r))
            /\ UNCHANGED <<char_class, stats, max_hp, mp, max_mp, inventory,
                           is_defending, enemy>>]_vars

\* A hit that the cap at 0 cut short: 5 hp taken by an enemy of strength 10.
C8_Witness ==
    /\ pc = "done"
    /\ action = "Enemy.attack"
    /\ ~is_defending
    /\ enemy.strength = 10
    /\ hp = 0

\* C9: special_move with less than 15 mp returns failure and leaves the
\* caster's mp and the target as they were.
C9_SpecialWithoutMana ==
    [][(pc = "test" /\ action' = "Player.special_move" /\ mp < 15)
         => (result' = "False" /\ mp' = mp /\ enemy' = enemy /\ hp' = hp)]_vars

\* test_player_special_move_no_mp: 10 mp, the Test Golem still at 50 hp.
C9_Witness ==
    /\ pc = "done"
    /\ action = "Player.special_move"
    /\ result = "False"
    /\ mp = 10
    /\ enemy.hp = 50

\* C10: a 'special' command without the mana for it leaves the player at the
\* combat prompt: the enemy's turn does not start and nothing of the player
\* or the enemy changes.
C10_FailedSpecialKeepsTurn ==
    [][(pc = "player_turn" /\ action' = "special" /\ mp < 15)
         => /\ pc' = "player_turn"
            /\ UNCHANGED <<hp, mp, inventory, is_defending, enemy, result>>]_vars

\* The player is asked again after a 'special' that failed.
C10_Witness ==
    /\ pc = "player_turn"
    /\ action = "special"
    /\ mp < 15
    /\ enemy.hp > 0

Max1(n) == IF n < 1 THEN 1 ELSE n

\* C11: special_move with at least 15 mp returns success, takes exactly 15 mp
\* and takes strength + r (r in 5..10, Guardian), magic + r (r in 8..15, Mage)
\* or agility + r (r in 6..12, Shadow) from the target's hp, clamped at 0,
\* whether or not the player defends, and changes nothing else.
C11_SpecialWithMana ==
    [][(pc = "test" /\ action' = "Player.special_move" /\ mp >= 15)
         => /\ result' = "True"
            /\ mp' = mp - 15
            /\ \/ /\ char_class = "Guardian"
                  /\ \E r \in 5..10 :
                        enemy'.hp = Max0(enemy.hp - (stats.strength + r))
               \/ /\ char_class = "Mage"
                  /\ \E r \in 8..15 :
                        enemy'.hp = Max0(enemy.hp - (stats.magic + r))
               \/ /\ char_class = "Shadow"
                  /\ \E r \in 6..12 :
                        enemy'.hp = Max0(enemy.hp - (stats.agility + r))
            /\ enemy' = [enemy EXCEPT !.hp = enemy'.hp]
            /\ UNCHANGED <<hp, max_hp, max_mp, stats, inventory,
                           is_defending>>]_vars

\* test_player_special_move_mage: the roll 10 leaves the Test Golem 22 of its
\* 50 hp and the Mage 65 of its 80 mp.
C11_Witness ==
    /\ pc = "done"
    /\ action = "Player.special_move"
    /\ result = "True"
    /\ char_class = "Mage"
    /\ mp = 65
    /\ enemy.max_hp = 50
    /\ enemy.hp = 22

\* C12: Player.attack takes max(1, strength + r) without a critical hit and
\* max(1, trunc((strength + r) * 1.8)) with one, r in -2..5, from the target's
\* hp, clamped at 0; a living target loses at least 1 hp.
C12_AttackDamage ==
    [][(pc = "test" /\ action' = "Player.attack")
         => /\ \E r \in (-2)..5 :
                 LET base == stats.strength + r IN
                 \/ enemy'.hp = Max0(enemy.hp - Max1(base))
                 \/ /\ stats.agility > 0
                    /\ enemy'.hp = Max0(enemy.hp - Max1((base * 18) \div 10))
            /\ enemy.hp > 0 => enemy'.hp < enemy.hp
            /\ enemy' = [enemy EXCEPT !.hp = enemy'.hp]
            /\ UNCHANGED <<hp, mp, stats, inventory, is_defending>>]_vars

\* test_player_attack_critical: a Mage's critical hit of int(8 * 1.8) = 14
\* leaves the Test Golem 36 of its 50 hp; no hit without a critical takes 14
\* (a Mage's are 4..11).
C12_Witness ==
    /\ pc = "done"
    /\ action = "Player.attack"
    /\ char_class = "Mage"
    /\ enemy.max_hp = 50
    /\ enemy.hp = 36

\* C13: a 'flee' changes nothing of the player or the enemy by itself; when it
\* succeeds start_combat returns 'fled' at once, and when it fails the
\* player's turn is over and the enemy's attack is the next thing to happen.
C13_Flee ==
    [][/\ (pc = "player_turn" /\ action' = "flee")
            => /\ UNCHANGED <<char_class, stats, hp, max_hp, mp, max_mp,
                              inventory, is_defending, enemy>>
               /\ \/ pc' = "after_combat" /\ result' = "fled"
                  \/ pc' = "enemy_turn" /\ result' = result
       /\ (pc = "enemy_turn" /\ action = "flee")
            => /\ enemy.hp > 0
               /\ \/ hp' = hp
                  \/ \E r \in 1..6 : hp' = Max0(hp - (enemy.strength + r))
               /\ UNCHANGED <<mp, inventory, enemy>>
       /\ (pc = "after_combat" /\ result = "fled")
            => UNCHANGED <<hp, mp, inventory, is_defending, enemy, result>>]_vars

\* start_combat has returned 'fled' in a later round than the first, both
\* sides hurt.
C13_Witness ==
    /\ pc = "after_combat"
    /\ result = "fled"
    /\ action = "flee"
    /\ hp < CombatHp
    /\ enemy.hp < enemy.max_hp

\* The list without its i-th item, the others in their order.
Without(list, i) ==
    [j \in 1..(Len(list) - 1) |-> IF j < i THEN list[j] ELSE list[j + 1]]

\* The inventory holds one item less, and the others in their order.
OneRemoved(before, after) ==
    \E i \in 1..Len(before) : after = Without(before, i)

\* C14: 'item' never ends the player's turn: from the combat prompt it leads
\* to the inventory prompt (or straight back, on an empty bag), from there
\* only back to the combat prompt; the enemy does not act meanwhile; and a
\* 'use' that takes effect takes one item and closes the inventory, so one
\* entry uses one item at most.
C14_ItemKeepsTurn ==
    [][/\ (pc = "player_turn" /\ action' = "item")
            => /\ pc' = (IF inventory = <<>> THEN "player_turn" ELSE "inventory")
               /\ UNCHANGED <<hp, mp, inventory, is_defending, enemy, result>>
       /\ pc = "inventory"
            => /\ pc' \in {"inventory", "player_turn"}
               /\ hp' >= hp /\ mp' >= mp
               /\ UNCHANGED <<is_defending, enemy, result, action>>
               /\ (hp' # hp \/ mp' # mp)
                     => (pc' = "player_turn" /\ OneRemoved(inventory, inventory'))
               /\ inventory' # inventory
                     => /\ OneRemoved(inventory, inventory')
                        /\ pc' = "inventory" <=> printed' = "discarded"]_vars

\* Back at the combat prompt after an entry that used the Mana Potion: the
\* Health Potion is still there, and the enemy has not moved.
C14_Witness ==
    /\ pc = "player_turn"
    /\ action = "item"
    /\ printed = "restores mp"
    /\ inventory = <<ClassWeapon(char_class), HealthPotion>>
    /\ hp = CombatHp
    /\ enemy.hp = CombatEnemyHp

\* The number of items of inv whose effect is of kind.
CountKind(inv, kind) == Cardinality({i \in 1..Len(inv) : inv[i].kind = kind})

\* The items of inv that are no potions, in their order.
NonPotions(inv) == SelectSeq(inv, LAMBDA x : x.item_type # "potion")

\* A call of use_item by a test: the first, or a repeated one.
C15_UseStep ==
    /\ action' = "Player.use_item"
    /\ pc = "test" \/ (pc = "done" /\ action = "Player.use_item")

\* C15: use_item refuses a heal potion at full hp and a mana potion at full
\* mp: hp, mp and the inventory stay as they were, however often the use is
\* repeated; at full hp no use takes a heal potion, at full mp none takes a
\* mana potion.
C15_FullRefusesPotion ==
    [][C15_UseStep
         => /\ printed' \in {"health full", "mana full"}
                 => UNCHANGED <<hp, mp, inventory>>
            /\ hp = max_hp
                 => /\ hp' = hp
                    /\ CountKind(inventory', "heal") = CountKind(inventory, "heal")
            /\ mp = max_mp
                 => /\ mp' = mp
                    /\ CountKind(inventory', "mana") = CountKind(inventory, "mana")
            /\ (hp = max_hp /\ mp = max_mp)
                 => UNCHANGED <<hp, mp, inventory>>]_vars

\* test_use_health_potion_at_full, repeated: after the Mana Potion was drunk
\* a heal potion is refused at full hp, and both Health Potions and the Seed
\* of Life are still there.
C15_Witness ==
    /\ pc = "done"
    /\ action = "Player.use_item"
    /\ printed = "health full"
    /\ hp = max_hp
    /\ Len(inventory) = 5
    /\ CountKind(inventory, "heal") = 3

\* C16: use_item with a heal potion of magnitude m below full hp sets hp to
\* min(max_hp, hp + m) and takes exactly that potion: the other items,
\* potions of the same name included, stay in their order.
C16_HealBelowMax ==
    [][(C15_UseStep /\ hp < max_hp)
         => /\ printed' = "restores hp" <=> hp' # hp
            /\ hp' # hp
                 => \E i \in 1..Len(inventory) :
                       /\ inventory[i].kind = "heal"
                       /\ hp' = (IF hp + inventory[i].amount > max_hp
                                 THEN max_hp ELSE hp + inventory[i].amount)
                       /\ inventory' = Without(inventory, i)
                       /\ mp' = mp]_vars

\* test_use_health_potion_overheal: a Guardian at 110 hp is at 120 after one
\* Health Potion, and the other Health Potion is still there.
C16_Witness ==
    /\ pc = "done"
    /\ action = "Player.use_item"
    /\ printed = "restores hp"
    /\ char_class = "Guardian"
    /\ hp = 120
    /\ inventory = <<SoldiersSword, HealthPotion, ManaPotion, SeedOfLife,
                     SunstoneShard>>

\* C17: use_item rejects an item that is no potion, a weapon with its boost
\* effect or an artifact without effect: hp, mp, the attributes and the
\* inventory stay as they were; no use takes a weapon or an artifact out of
\* the inventory or changes an attribute.
C17_NonPotionRejected ==
    [][C15_UseStep
         => /\ printed' = "cannot use"
                 => UNCHANGED <<hp, max_hp, mp, max_mp, stats, inventory>>
            /\ NonPotions(inventory') = NonPotions(inventory)
            /\ stats' = stats
            /\ (\A i \in 1..Len(inventory) : inventory[i].item_type # "potion")
                 => UNCHANGED <<hp, mp, inventory>>]_vars

\* A weapon or an artifact was refused to a wounded player low on mana, who
\* could have used any potion.
C17_Witness ==
    /\ pc = "done"
    /\ action = "Player.use_item"
    /\ printed = "cannot use"
    /\ hp < max_hp
    /\ Len(inventory) = 6

\* C18: at the inventory prompt a command naming an item the player does not
\* hold, a command with an unknown verb and a single word other than 'back'
\* leave the player and the enemy as they were and keep the prompt open.
C18_BadInventoryCommand ==
    [][(pc = "inventory"
          /\ printed' \in {"not found", "invalid command", "invalid format"})
         => /\ pc' = "inventory"
            /\ UNCHANGED <<char_class, stats, hp, max_hp, mp, max_mp,
                           inventory, is_defending, enemy, result>>]_vars

\* An unknown verb on an item the player holds, after another was discarded.
C18_Witness ==
    /\ pc = "inventory"
    /\ printed = "invalid command"
    /\ Len(inventory) = 2

\* The Health Potion of the starter inventory.
C19_IsHealthPotion(item) ==
    /\ item.name = "Health Potion"
    /\ item.item_type = "potion"
    /\ item.kind = "heal"
    /\ item.amount = 25

\* C19: setup_class on a new player gives the class its table values, full
\* hp and mp, and an inventory of the class weapon followed by two Health
\* Potions of 25.
C19_ClassTable ==
    [][pc = "creation"
         => /\ \/ /\ char_class' = "Guardian"
                  /\ stats' = [strength |-> 15, agility |-> 8, magic |-> 5]
                  /\ max_hp' = 120 /\ max_mp' = 30
                  /\ inventory'[1].name = "Soldier's Sword"
               \/ /\ char_class' = "Mage"
                  /\ stats' = [strength |-> 6, agility |-> 10, magic |-> 18]
                  /\ max_hp' = 80 /\ max_mp' = 80
                  /\ inventory'[1].name = "Apprentice Staff"
               \/ /\ char_class' = "Shadow"
                  /\ stats' = [strength |-> 10, agility |-> 16, magic |-> 10]
                  /\ max_hp' = 90 /\ max_mp' = 50
                  /\ inventory'[1].name = "Twin Daggers"
            /\ hp' = max_hp' /\ mp' = max_mp'
            /\ Len(inventory') = 3
            /\ inventory'[1].item_type = "weapon"
            /\ C19_IsHealthPotion(inventory'[2])
            /\ C19_IsHealthPotion(inventory'[3])]_vars

\* A Shadow right after character creation.
C19_Witness ==
    /\ pc = "main"
    /\ game_stage = "stage_1"
    /\ char_class = "Shadow"
    /\ stats.agility = 16
    /\ hp = 90
    /\ Len(inventory) = 3

\* C20: after character creation no step changes the player's class or the
\* attributes strength, agility and magic.
C20_AttributesFixed ==
    [][pc # "creation" => UNCHANGED <<char_class, stats>>]_vars

\* A Guardian has tried to use the Soldier's Sword, which names a boost of
\* strength, and its attributes are those of its class.
C20_Witness ==
    /\ pc = "player_turn"
    /\ printed = "cannot use"
    /\ char_class = "Guardian"
    /\ stats = [strength |-> 15, agility |-> 8, magic |-> 5]

(***************************************************************************)
(* C21: an enemy the player fled from is never treated as defeated: what   *)
(* a stage does for a defeated enemy (golem_fought and the Sunstone of the *)
(* fight path, the Greater Health Potion of the Stalker, the last menu     *)
(* after the boss) happens only when start_combat returned 'victory'.      *)
(***************************************************************************)
C21_FledIsNotDefeated ==
    [][(/\ pc = "after_combat"
        /\ \/ game_flags'.golem_fought /\ ~game_flags.golem_fought
           \/ inventory' = Append(inventory, TheSunstone)
           \/ inventory' = Append(inventory, GreaterHealthPotion)
           \/ pc' = "final_choice")
         => result = "victory"]_vars

(***************************************************************************)
(* C22: the value start_combat returns matches the vitals it leaves:       *)
(* 'victory' with the enemy at 0 hp and the player above 0, 'defeat' with  *)
(* the player at 0 hp, 'fled' with both above 0.                           *)
(***************************************************************************)
C22_ResultMatchesVitals ==
    /\ result = "victory" => (enemy.hp = 0 /\ hp > 0)
    /\ result = "defeat" => hp = 0
    /\ result = "fled" => (hp > 0 /\ enemy.hp > 0)

\* Every value has been returned by some encounter; here a defeat from inside
\* the loop, after the enemy was hurt.
C22_Witness ==
    /\ pc = "after_combat"
    /\ result = "defeat"
    /\ returned = 387
    /\ hp = 0
    /\ 0 < enemy.hp /\ enemy.hp < enemy.max_hp

(***************************************************************************)
(* C23: whenever a story stage has returned an identifier other than       *)
(* 'game_over' the player's hp is above 0: the story does not go on to a   *)
(* later stage for a player whose health has reached 0.                    *)
(***************************************************************************)
C23_AliveWhenAdvancing ==
    (/\ pc = "main"
     /\ game_stage \in {"stage_2", "stage_3", "stage_4", "ending_good",
                        "ending_neutral", "ending_bad"})
      => hp > 0

(***************************************************************************)
(* C24: the main loop runs stage_1, stage_2, stage_3, stage_4 in this      *)
(* order, each at most once, and the program always ends with game_stage   *)
(* one of game_over, ending_good, ending_neutral, ending_bad; game_over is *)
(* produced only by a stage whose combat returned 'defeat'.                *)
(***************************************************************************)
\* The stage identifiers that end the main loop.
C24_Final == {"game_over", "ending_good", "ending_neutral", "ending_bad"}

\* The identifier a stage may hand to main after the identifier before.
C24_Follows(before, after) ==
    \/ before = "" /\ after = "stage_1"
    \/ before = "stage_1" /\ after \in {"stage_2", "game_over"}
    \/ before = "stage_2" /\ after \in {"stage_3", "game_over"}
    \/ before = "stage_3" /\ after \in {"stage_4", "game_over"}
    \/ before = "stage_4" /\ after \in C24_Final

C24_StagesInOrderToAnEnd ==
    [][/\ game_stage' # game_stage => C24_Follows(game_stage, game_stage')
       /\ (game_stage' = "game_over" /\ game_stage # "game_over")
            => (pc = "after_combat" /\ result = "defeat")
       /\ (pc' \notin {"creation", "main", "treant", "final_choice",
                       "player_turn", "enemy_turn", "inventory",
                       "after_combat"})
            => game_stage' \in C24_Final]_vars

(***************************************************************************)
(* C25: the ending 'ending_neutral' is reached only when the Golem was     *)
(* fought or sneaked past (golem_befriended is false) and the player chose *)
(* to destroy the Shadow Ember at the last menu.                           *)
(***************************************************************************)
C25_NeutralEnding ==
    game_stage = "ending_neutral"
      => /\ ~game_flags.golem_befriended
         /\ FinalOptions[prompt(typed, FinalOptions)] = "destroy"

(***************************************************************************)
(* C26: the ending 'ending_good' is reached only with golem_befriended     *)
(* true, and golem_befriended becomes true only in stage 3, for a player   *)
(* whose magic is above 15 and who chose the talk option of the Golem      *)
(* menu.                                                                   *)
(***************************************************************************)
C26_GoodEnding ==
    [][/\ game_stage' = "ending_good" => game_flags'.golem_befriended
       /\ (game_flags'.golem_befriended /\ ~game_flags.golem_befriended)
            => /\ pc = "main" /\ game_stage = "stage_3"
               /\ stats.magic > 15
               /\ GolemOptions[prompt(typed', GolemOptions)] = "reason"]_vars

\* A game has ended with the good ending.
C26_Witness ==
    /\ pc = "done"
    /\ game_stage = "ending_good"
    /\ game_flags.golem_befriended
    /\ char_class = "Mage"

(***************************************************************************)
(* C27: at most one of golem_befriended, golem_fought, golem_sneaked is    *)
(* true, has_sunstone is true exactly when one of them is, and when stage  *)
(* 4 is entered has_sunstone is true and the inventory holds a Sunstone    *)
(* artifact.                                                               *)
(***************************************************************************)
C27_SunstoneFlags ==
    LET golem == {f \in {"golem_befriended", "golem_fought", "golem_sneaked"} :
                     game_flags[f]}
    IN  /\ Cardinality(golem) <= 1
        /\ game_flags.has_sunstone <=> golem # {}
        /\ (pc = "main" /\ game_stage = "stage_4")
             => /\ game_flags.has_sunstone
                /\ \E i \in 1..Len(inventory) :
                      /\ inventory[i].item_type = "artifact"
                      /\ inventory[i].name \in {"Sunstone Shard", "The Sunstone"}

\* Stage 4 is entered after the Golem was sneaked past.
C27_Witness ==
    /\ pc = "main"
    /\ game_stage = "stage_4"
    /\ game_flags.golem_sneaked
    /\ inventory[Len(inventory)] = TheSunstone

(***************************************************************************)
(* C28: at the Treant menu of stage 2 and at the Golem menu of stage 3,    *)
(* for every class and every index the menu accepts, the branch executed   *)
(* is the one of the option shown at that index: help gives the Seed of    *)
(* Life, cleanse costs 20 mp for 10 max hp, sneak costs 10 hp unless a     *)
(* player of other classes has agility above 12, threaten costs 15 hp;     *)
(* reason befriends the Golem, sneak steals the Sunstone, demand and       *)
(* attack start the fight.                                                 *)
(***************************************************************************)
C28_BranchOfShownOption ==
    [][/\ pc = "treant" =>
            LET option == TreantOptions[prompt(typed', TreantOptions)] IN
            /\ option = "help" =>
                 /\ inventory' = Append(inventory, SeedOfLife)
                 /\ <<hp', max_hp', mp'>> = <<hp, max_hp, mp>>
            /\ option = "cleanse" =>
                 /\ <<hp', max_hp', mp'>> = <<hp + 10, max_hp + 10, mp - 20>>
                 /\ inventory' = inventory
            /\ option = "sneak" =>
                 /\ hp' = IF char_class # "Mage" /\ stats.agility > 12
                          THEN hp ELSE Max0(hp - 10)
                 /\ <<max_hp', mp', inventory'>> = <<max_hp, mp, inventory>>
            /\ option = "threaten" =>
                 /\ hp' = Max0(hp - 15)
                 /\ <<max_hp', mp', inventory'>> = <<max_hp, mp, inventory>>
       /\ (pc = "main" /\ game_stage = "stage_3") =>
            LET option == GolemOptions[prompt(typed', GolemOptions)] IN
            /\ option = "reason" =>
                 /\ stats.magic > 15
                 /\ game_flags'.golem_befriended /\ ~game_flags'.golem_sneaked
                 /\ inventory' = Append(inventory, SunstoneShard)
                 /\ game_stage' = "stage_4"
            /\ option = "sneak" =>
                 /\ stats.agility > 15
                 /\ game_flags'.golem_sneaked /\ ~game_flags'.golem_befriended
                 /\ inventory' = Append(inventory, TheSunstone)
                 /\ game_stage' = "stage_4"
            /\ option \in {"demand", "attack"} =>
                 /\ enemy' = CrystalGolem
                 /\ caller' = "stage_3"
                 /\ <<game_flags', inventory', game_stage'>>
                      = <<game_flags, inventory, game_stage>>]_vars

\* A Mage has threatened the Treant at full health and then reasoned with
\* the Golem.
C28_Witness ==
    /\ pc = "main" /\ game_stage = "stage_4"
    /\ char_class = "Mage" /\ typed = "3"
    /\ game_flags.golem_befriended
    /\ max_hp = 80 /\ hp = max_hp - 15

(***************************************************************************)
(* C29: prompt(text, options) returns only an integer in 1..len(options):  *)
(* it skips every line that is not such a number (not numeric, or out of   *)
(* range) without changing the state of the game, and returns on the first *)
(* line that is.                                                           *)
(***************************************************************************)
\* The number a line names, 0 for a line that names none.
C29_Number(line) ==
    CASE line \in {"1"} -> 1
      [] line \in {"2"} -> 2
      [] line \in {"3"} -> 3
      [] line \in {"4", " 4 "} -> 4
      [] line \in {"5"} -> 5
      [] OTHER -> 0

C29_PromptSkipsInvalid ==
    [][AtMenu =>
         IF C29_Number(typed') \in 1..Len(MenuOptions)
         THEN /\ <<pc', game_stage'>> # <<pc, game_stage>>
              /\ pc' \in {"main", "player_turn", "after_combat"}
         ELSE UNCHANGED <<pc, game_stage, char_class, stats, hp, max_hp, mp,
                          max_mp, inventory, is_defending, enemy, game_flags,
                          action, printed, result, caller, inputs,
                          returned>>]_vars

(***************************************************************************)
(* C30: the return 'defeat' after the while loop of start_combat is        *)
(* reached only when the player is not alive at the moment start_combat is *)
(* called; in every other case start_combat returns from inside the loop.  *)
(***************************************************************************)
C30_FallThroughOnlyForTheDead ==
    [][(pc' = "after_combat" /\ pc # "after_combat") =>
         IF pc \in {"player_turn", "enemy_turn"}
         THEN returned' \in {366, 377, 387}
         ELSE ~(hp > 0) /\ returned' = 391 /\ result' = "defeat"]_vars

\* start_combat has been called for a dead player and has returned without
\* reading a command.
C30_Witness ==
    /\ pc = "after_combat"
    /\ returned = 391
    /\ result = "defeat"
    /\ hp = 0
    /\ action = ""
    /\ enemy.hp = enemy.max_hp

====
